---- MODULE Spec2Model ----
(***************************************************************************)
(* Model of the PDF image replacement backend: app/document_manager.py     *)
(* (DocumentManager) and the HTTP handlers of app/main.py.                 *)
(*                                                                         *)
(* A stored PDF file is a sequence of segments.  The first segment is the  *)
(* uploaded document body; every incremental save appends one segment     *)
(* holding the rewritten image object and a cross-reference section that   *)
(* points back at the cross-reference section the writer had read.         *)
(***************************************************************************)
EXTENDS Integers, Sequences, FiniteSets, TLC

\* ---------------------------------------------------------------- bounds
MaxReplace == 2     \* replace requests started in one behaviour
MaxRes == 3         \* SpecIndexer: image resources reported for a page
MaxRects == 2       \* SpecIndexer: placement rectangles of one resource

DocIds == {"d1", "d2"}          \* uuid4().hex values the store can hand out
Slots == {1, 2}                 \* requests that can be in flight together

\* ------------------------------------------------------------ exceptions
\* What the code raises: the exception class and its message.
NoError == [cls |-> "None", msg |-> ""]
DocumentNotFound == [cls |-> "FileNotFoundError", msg |-> "Document not found"]
InvalidPage == [cls |-> "ValueError", msg |-> "Invalid page number"]
IndexNotFound == [cls |-> "ValueError", msg |-> "Image index not found on page"]
\* Raised inside Pillow / PyMuPDF and never caught by DocumentManager.
UnidentifiedImage == [cls |-> "UnidentifiedImageError", msg |-> "cannot identify image file"]
EngineFailure == [cls |-> "RuntimeError", msg |-> "engine failure"]

\* main.py: except (FileNotFoundError, ValueError) -> HTTPException(404);
\* any other exception leaves the handler uncaught (500).
HttpStatus(exc) ==
    IF exc = NoError THEN 200
    ELSE IF exc.cls \in {"FileNotFoundError", "ValueError"} THEN 404
    ELSE 500

\* ------------------------------------------------------------ raw images
\* Uploaded replacement bytes: a decodable raster of some channel mode, or
\* bytes no decoder recognises.
RgbPng == [fmt |-> "png", mode |-> "RGB", id |-> "newA", w |-> 2, h |-> 2]
PalettePng == [fmt |-> "png", mode |-> "P", id |-> "newB", w |-> 3, h |-> 1]
Garbage == [fmt |-> "none", mode |-> "none", id |-> "junk", w |-> 0, h |-> 0]
RawImages == {RgbPng, PalettePng, Garbage}

Decodable(raw) == raw.fmt # "none"

\* _pixmap_from_bytes: anything but RGB/RGBA is converted to RGBA.
PixmapFromBytes(raw) ==
    LET cs == IF raw.mode \in {"RGB", "RGBA"} THEN raw.mode ELSE "RGBA"
    IN  [cs |-> cs, w |-> raw.w, h |-> raw.h, samples |-> <<raw.id, cs>>]

\* ------------------------------------------------------------- documents
\* A PDF body: the object table (xref -> object) and, per page, the image
\* resources the engine reports with their placement rectangles.
Rect(k, j) == <<10 * k, 10 * j, 10 * k + 5, 10 * j + 5>>

RectsOf(k, n) == [j \in 1..n |-> Rect(k, j)]

OldPix(name) == [cs |-> "RGB", w |-> 1, h |-> 1, samples |-> <<name, "RGB">>]

ImageObj(px) == [img |-> TRUE, ext |-> "ok", px |-> px]

\* Two pages.  Page 1: xref 1 drawn twice, xref 3 a soft mask (no rectangle),
\* xref 4 not an image, xref 5 not extractable, xref 2 drawn once.
\* Page 2 draws xref 2 again.
PdfA ==
    [objs |-> <<ImageObj(OldPix("old1")),
                ImageObj(OldPix("old2")),
                ImageObj(OldPix("mask")),
                [img |-> FALSE, ext |-> "ok", px |-> OldPix("form")],
                [img |-> TRUE, ext |-> "err", px |-> OldPix("bad")]>>,
     pages |-> << <<[xref |-> 1, rects |-> RectsOf(1, 2)],
                    [xref |-> 3, rects |-> RectsOf(3, 0)],
                    [xref |-> 4, rects |-> RectsOf(4, 1)],
                    [xref |-> 5, rects |-> RectsOf(5, 1)],
                    [xref |-> 2, rects |-> RectsOf(2, 1)]>>,
                  <<[xref |-> 2, rects |-> RectsOf(2, 1)]>> >>]

\* One page with a single image.
PdfB ==
    [objs |-> <<ImageObj(OldPix("old1"))>>,
     pages |-> << <<[xref |-> 1, rects |-> RectsOf(1, 1)]>> >>]

OrigSeg(pdf) == [t |-> "orig", pdf |-> pdf]
UpdSeg(prev, xref, pix) == [t |-> "upd", prev |-> prev, xref |-> xref, px |-> pix]
PartialSeg == [t |-> "partial"]

\* Byte streams a client uploads: fresh PDFs, and one that already carries
\* an incremental update.
Uploads ==
    { <<OrigSeg(PdfA)>>,
      <<OrigSeg(PdfB)>>,
      <<OrigSeg(PdfB), UpdSeg(1, 1, OldPix("edit"))>> }

\* ------------------------------------------------------ engine: open/read
\* fitz.open(path): the engine reads the last complete cross-reference
\* section of the file and follows its chain of previous sections.
LastGood(f) ==
    CHOOSE k \in 1..Len(f) :
        /\ f[k].t # "partial"
        /\ \A m \in (k + 1)..Len(f) : f[m].t = "partial"

RECURSIVE View(_)
View(f) ==
    LET k == LastGood(f)
    IN  IF f[k].t = "orig"
        THEN f[k].pdf
        ELSE LET base == View(SubSeq(f, 1, f[k].prev))
             IN  [base EXCEPT !.objs[f[k].xref] = ImageObj(f[k].px)]

PageCount(pdf) == Len(pdf.pages)

\* base64.b64encode(...).decode("utf-8")
B64(bytes) == <<"b64", bytes>>

\* doc.extract_image(xref) for an extractable object.
ExtractImage(pdf, xref) ==
    LET o == pdf.objs[xref]
    IN  [image |-> <<"enc", o.px.samples>>, width |-> o.px.w,
         height |-> o.px.h, ext |-> "png"]

\* ------------------------------------------------------ list_page_images
\* Mutant: the xref_is_image test is left out.
SkippedNoImageTest(pdf, entry) ==
    \/ entry.rects = <<>>
    \/ pdf.objs[entry.xref].ext = "err"
    \/ pdf.objs[entry.xref].ext = "empty"

\* The `continue` tests of the loop body: no rectangle, not an image,
\* extract_image raised RuntimeError, or its result holds no "image".
Skipped(pdf, entry) ==
    \/ entry.rects = <<>>
    \/ ~pdf.objs[entry.xref].img
    \/ pdf.objs[entry.xref].ext = "err"
    \/ pdf.objs[entry.xref].ext = "empty"

\* Mutant: the counter is advanced once per resource, not once per rectangle.
EntryImagesFlat(pdf, entry, counter) ==
    LET info == ExtractImage(pdf, entry.xref)
    IN  [j \in 1..Len(entry.rects) |->
            [index |-> counter, bbox |-> entry.rects[j],
             width |-> info.width, height |-> info.height,
             xref |-> entry.xref, preview_base64 |-> B64(info.image),
             extension |-> info.ext]]

\* The inner loop: one PageImage per rectangle, index = counter, counter += 1.
EntryImages(pdf, entry, counter) ==
    LET info == ExtractImage(pdf, entry.xref)
    IN  [j \in 1..Len(entry.rects) |->
            [index |-> counter + (j - 1), bbox |-> entry.rects[j],
             width |-> info.width, height |-> info.height,
             xref |-> entry.xref, preview_base64 |-> B64(info.image),
             extension |-> info.ext]]

\* The outer loop over page.get_images(full=True), from entry k on.
RECURSIVE ListLoop(_, _, _, _, _)
ListLoop(pdf, res, k, images, counter) ==
    IF k > Len(res) THEN images
    ELSE IF Skipped(pdf, res[k])
         THEN ListLoop(pdf, res, k + 1, images, counter)
         ELSE ListLoop(pdf, res, k + 1,
                       images \o EntryImages(pdf, res[k], counter),
                       counter + Len(res[k].rects))

\* list_page_images after the page check: the images of a valid page.
ListPageImages(pdf, page_number) ==
    ListLoop(pdf, pdf.pages[page_number], 1, <<>>, 0)

ValidPage(pdf, page_number) == 1 <= page_number /\ page_number <= PageCount(pdf)


\* Mutant: an invalid page is reported with the unknown-document error.
PageCheckAsNotFound(pdf, page_number) ==
    IF ValidPage(pdf, page_number) THEN NoError ELSE DocumentNotFound

\* if not 1 <= page_number <= doc.page_count: raise ValueError(...)
PageCheck(pdf, page_number) ==
    IF ValidPage(pdf, page_number) THEN NoError ELSE InvalidPage

\* _ensure_document, then the page check inside `with fitz.open(...)`.
OpenAndCheck(f, page_number) ==
    IF f = <<>> THEN DocumentNotFound ELSE PageCheck(View(f), page_number)

NoTarget == [index |-> -1, xref |-> 0]

\* Mutant: the index is used as a Python list subscript (images[image_index]),
\* so a negative index counts from the end.
FindTargetSubscript(images, image_index) ==
    IF image_index >= -Len(images) /\ image_index < Len(images)
    THEN LET k == (image_index % Len(images)) + 1
         IN  [index |-> images[k].index, xref |-> images[k].xref]
    ELSE NoTarget

\* next((img for img in images if img.index == image_index), None)
FindTarget(images, image_index) ==
    IF \E k \in 1..Len(images) : images[k].index = image_index
    THEN LET k == CHOOSE n \in 1..Len(images) :
                    /\ images[n].index = image_index
                    /\ \A m \in 1..(n - 1) : images[m].index # image_index
         IN  [index |-> images[k].index, xref |-> images[k].xref]
    ELSE NoTarget

\* Mutant: the occurrence index is handed to the engine instead of the xref.
ReplaceXrefFromIndex(target) == target.index + 1

\* page.replace_image(target.xref, pixmap=pix)
ReplaceXref(target) == target.xref

\* Mutant: a full rewrite of the file (incremental=False).
SavedFileRewrite(f, base, xref, pix) ==
    <<OrigSeg(View(Append(f, UpdSeg(base, xref, pix))))>>

\* doc.save(path, incremental=True, encryption=PDF_ENCRYPT_KEEP): the update
\* is appended; its cross-reference section chains to the one read at open.
SavedFile(f, base, xref, pix) == Append(f, UpdSeg(base, xref, pix))

\* Mutant: the handle chains every update to the first cross-reference
\* section of the file.
OpenBaseFirst(f) == 1

\* The cross-reference section a handle opened on f has read.
OpenBase(f) == LastGood(f)

\* Mutant: a failure of the save is swallowed.
SaveResultSwallowed(outcome) == NoError

\* The exception doc.save lets escape, if any.
SaveResult(outcome) == IF outcome = "ok" THEN NoError ELSE EngineFailure

\* ------------------------------------------------------------------ state
VARIABLES
    files,        \* storage_root: doc id -> stored file (<<>>: no such file)
    uploaded,     \* history: the bytes each document was uploaded with
    calls,        \* per request slot: the handler's position and locals
    overlapped,   \* history: two replace calls were in flight on the document
    nrep          \* replace requests started

vars == <<files, uploaded, calls, overlapped, nrep>>

Idle ==
    [pc |-> "idle", op |-> "none", d |-> "d1", p |-> 0, i |-> 0,
     raw |-> Garbage, target |-> NoTarget, pix |-> <<>>, handle |-> FALSE,
     base |-> 0, pre |-> <<>>, save |-> "none", exc |-> NoError,
     status |-> 0, body |-> <<>>]

InFlight == {"resolved", "decoded", "opened"}

Init ==
    /\ files = [d \in DocIds |-> <<>>]
    /\ uploaded = [d \in DocIds |-> <<>>]
    /\ calls = [c \in Slots |-> Idle]
    /\ overlapped = [d \in DocIds |-> FALSE]
    /\ nrep = 0

\* The handler returns or raises: the response is on the wire.
Done(c, rec) == calls' = [calls EXCEPT ![c] = [rec EXCEPT !.pc = "done"]]

\* POST /upload -> save_pdf
Upload(c, ctypeOk, bytes) ==
    /\ calls[c].pc = "idle"
    /\ IF ~ctypeOk
       THEN /\ Done(c, [Idle EXCEPT !.op = "upload", !.status = 400])
            /\ UNCHANGED <<files, uploaded>>
       ELSE \E d \in DocIds :
               /\ files[d] = <<>>
               /\ files' = [files EXCEPT ![d] = bytes]
               /\ uploaded' = [uploaded EXCEPT ![d] = bytes]
               /\ Done(c, [Idle EXCEPT !.op = "upload", !.d = d,
                                       !.status = 200,
                                       !.body = <<PageCount(View(bytes))>>])
    /\ UNCHANGED <<overlapped, nrep>>

\* GET /preview -> get_page_preview
Preview(c, d, p) ==
    /\ calls[c].pc = "idle"
    /\ LET exc == OpenAndCheck(files[d], p)
       IN  Done(c, [Idle EXCEPT !.op = "preview", !.d = d, !.p = p,
                                !.pre = files[d], !.exc = exc,
                                !.status = HttpStatus(exc),
                                !.body = IF exc = NoError
                                         THEN <<B64(<<"page", p>>)>>
                                         ELSE <<>>])
    /\ UNCHANGED <<files, uploaded, overlapped, nrep>>

\* GET /images -> list_page_images
ListImages(c, d, p) ==
    /\ calls[c].pc = "idle"
    /\ LET exc == OpenAndCheck(files[d], p)
       IN  Done(c, [Idle EXCEPT !.op = "images", !.d = d, !.p = p,
                                !.pre = files[d], !.exc = exc,
                                !.status = HttpStatus(exc),
                                !.body = IF exc = NoError
                                         THEN ListPageImages(View(files[d]), p)
                                         ELSE <<>>])
    /\ UNCHANGED <<files, uploaded, overlapped, nrep>>

\* GET /document/{id} -> get_pdf_file
Download(c, d) ==
    /\ calls[c].pc = "idle"
    /\ LET exc == IF files[d] = <<>> THEN DocumentNotFound ELSE NoError
       IN  Done(c, [Idle EXCEPT !.op = "download", !.d = d,
                                !.pre = files[d], !.exc = exc,
                                !.status = HttpStatus(exc),
                                !.body = files[d]])
    /\ UNCHANGED <<files, uploaded, overlapped, nrep>>

\* POST /replace up to the target lookup of replace_page_image:
\* content-type check, _ensure_document, list_page_images, next(...).
ReplaceStart(c, ctypeOk, d, p, i, raw) ==
    /\ calls[c].pc = "idle"
    /\ nrep < MaxReplace
    /\ nrep' = nrep + 1
    /\ LET rec == [Idle EXCEPT !.op = "replace", !.d = d, !.p = p, !.i = i,
                               !.raw = raw, !.pre = files[d]]
           exc == OpenAndCheck(files[d], p)
       IN  IF ~ctypeOk
           THEN /\ Done(c, [rec EXCEPT !.status = 400])
                /\ UNCHANGED overlapped
           ELSE IF exc # NoError
           THEN /\ Done(c, [rec EXCEPT !.exc = exc, !.status = HttpStatus(exc)])
                /\ UNCHANGED overlapped
           ELSE LET target == FindTarget(ListPageImages(View(files[d]), p), i)
                IN  IF target = NoTarget
                    THEN /\ Done(c, [rec EXCEPT !.exc = IndexNotFound,
                                          !.status = HttpStatus(IndexNotFound)])
                         /\ UNCHANGED overlapped
                    ELSE /\ calls' = [calls EXCEPT ![c] =
                                [rec EXCEPT !.pc = "resolved", !.target = target]]
                         /\ overlapped' = [overlapped EXCEPT ![d] =
                                @ \/ \E c2 \in Slots \ {c} :
                                        /\ calls[c2].pc \in InFlight
                                        /\ calls[c2].d = d]
    /\ UNCHANGED <<files, uploaded>>

\* pix = self._pixmap_from_bytes(new_image_bytes)
ReplaceDecode(c) ==
    /\ calls[c].pc = "resolved"
    /\ IF Decodable(calls[c].raw)
       THEN calls' = [calls EXCEPT ![c].pc = "decoded",
                                   ![c].pix = <<PixmapFromBytes(calls[c].raw)>>]
       ELSE Done(c, [calls[c] EXCEPT !.exc = UnidentifiedImage,
                                     !.status = HttpStatus(UnidentifiedImage)])
    /\ UNCHANGED <<files, uploaded, overlapped, nrep>>

\* with fitz.open(path) as doc: load_page; page.replace_image(xref, pixmap=pix)
ReplaceOpen(c, ok) ==
    /\ calls[c].pc = "decoded"
    /\ IF ok
       THEN calls' = [calls EXCEPT ![c].pc = "opened", ![c].handle = TRUE,
                                   ![c].base = OpenBase(files[calls[c].d])]
       ELSE Done(c, [calls[c] EXCEPT !.exc = EngineFailure,
                                     !.status = HttpStatus(EngineFailure)])
    /\ UNCHANGED <<files, uploaded, overlapped, nrep>>

\* doc.save(...); leaving the with block closes the handle; pix = None and
\* the handler's response are reached only when nothing was raised.
ReplaceSave(c, outcome) ==
    /\ calls[c].pc = "opened"
    /\ LET r == calls[c]
           exc == SaveResult(outcome)
       IN  /\ files' = [files EXCEPT ![r.d] =
                  CASE outcome = "ok" ->
                         SavedFile(@, r.base, ReplaceXref(r.target), r.pix[1])
                    [] outcome = "partial" -> Append(@, PartialSeg)
                    [] OTHER -> @]
           /\ Done(c, [r EXCEPT !.handle = FALSE,
                                !.save = IF outcome = "ok" THEN "ok" ELSE "failed",
                                !.exc = exc,
                                !.status = HttpStatus(exc),
                                !.pix = IF exc = NoError THEN <<>> ELSE @])
    /\ UNCHANGED <<uploaded, overlapped, nrep>>

\* The slot takes the next request.
Finish(c) ==
    /\ calls[c].pc = "done"
    /\ calls' = [calls EXCEPT ![c] = Idle]
    /\ UNCHANGED <<files, uploaded, overlapped, nrep>>

PageInputs == 0..3
IndexInputs == -1..4
SaveOutcomes == {"ok", "fail", "partial"}

\* One request at a time (a single event loop serving a sequential client).
Next ==
    \/ \E ct \in BOOLEAN, b \in Uploads : Upload(1, ct, b)
    \/ \E d \in DocIds, p \in PageInputs : Preview(1, d, p)
    \/ \E d \in DocIds, p \in PageInputs : ListImages(1, d, p)
    \/ \E d \in DocIds : Download(1, d)
    \/ \E ct \in BOOLEAN, d \in DocIds, p \in PageInputs, i \in IndexInputs,
          raw \in RawImages : ReplaceStart(1, ct, d, p, i, raw)
    \/ ReplaceDecode(1)
    \/ \E ok \in BOOLEAN : ReplaceOpen(1, ok)
    \/ \E o \in SaveOutcomes : ReplaceSave(1, o)
    \/ Finish(1)

Spec == Init /\ [][Next]_vars

\* Replace requests served by workers that share the storage directory and
\* take no lock.
NextConc ==
    \/ \E b \in {<<OrigSeg(PdfA)>>} : Upload(1, TRUE, b)
    \/ \E c \in Slots, d \in DocIds, i \in {0, 2}, raw \in {RgbPng, PalettePng} :
          ReplaceStart(c, TRUE, d, 1, i, raw)
    \/ \E c \in Slots : ReplaceDecode(c)
    \/ \E c \in Slots, ok \in BOOLEAN : ReplaceOpen(c, ok)
    \/ \E c \in Slots, o \in SaveOutcomes : ReplaceSave(c, o)
    \/ \E c \in Slots : Finish(c)

SpecConc == Init /\ [][NextConc]_vars

\* Pages whose image resources the engine reports in any combination.
ObjKinds ==
    {[img |-> FALSE, ext |-> "ok", px |-> OldPix("o")]}
    \cup {[img |-> TRUE, ext |-> e, px |-> OldPix("o")] : e \in {"ok", "err", "empty"}}

\* A one-page PDF whose k-th reported resource is object k.
IndexerPdf(objs, nrects) ==
    [objs |-> objs,
     pages |-> << [k \in 1..Len(objs) |->
                     [xref |-> k, rects |-> RectsOf(k, nrects[k])]] >>]

InitIndexer ==
    /\ \E n \in 0..MaxRes :
          \E o \in [1..n -> ObjKinds], r \in [1..n -> 0..MaxRects] :
              files = [d \in DocIds |->
                         IF d = "d1" THEN <<OrigSeg(IndexerPdf(o, r))>> ELSE <<>>]
    /\ uploaded = files
    /\ calls = [c \in Slots |-> Idle]
    /\ overlapped = [d \in DocIds |-> FALSE]
    /\ nrep = 0

NextIndexer ==
    \/ \E p \in 0..2 : ListImages(1, "d1", p)
    \/ Finish(1)

SpecIndexer == InitIndexer /\ [][NextIndexer]_vars


\* ================================================================ claims
DoneCalls == {c \in Slots : calls[c].pc = "done"}

\* The manager was invoked: the handler's content-type check let the request in.
Invoked(r) == r.status # 400

IsPrefix(s, t) == Len(s) <= Len(t) /\ SubSeq(t, 1, Len(s)) = s

\* C1: the stored file of every document, and every byte stream a download
\* returned, starts with the bytes the document was uploaded with, whatever
\* replace calls (successful or failed) ran on it.
C1_OriginalPrefixKept ==
    /\ \A d \in DocIds : files[d] # <<>> => IsPrefix(uploaded[d], files[d])
    /\ \A c \in DoneCalls :
          (calls[c].op = "download" /\ calls[c].exc = NoError)
             => IsPrefix(uploaded[calls[c].d], calls[c].body)

\* A download after a committed replace and a failed save that left a torn tail.
C1_Witness ==
    \E c \in DoneCalls :
        /\ calls[c].op = "download"
        /\ calls[c].exc = NoError
        /\ \E k \in 1..Len(calls[c].body) :
              k > Len(uploaded[calls[c].d]) /\ calls[c].body[k].t = "upd"
        /\ \E k \in 1..Len(calls[c].body) : calls[c].body[k].t = "partial"

ListedOk(r) == r.op = "images" /\ r.exc = NoError

\* C2: a listing of n occurrences carries the indices 0, 1, ..., n-1 in list
\* order, whatever resources the engine reported and however many were skipped.
C2_IndicesSequential ==
    \A c \in DoneCalls :
        ListedOk(calls[c]) =>
            \A k \in 1..Len(calls[c].body) : calls[c].body[k].index = k - 1

\* A listing of at least three occurrences of a page on which a skipped
\* resource precedes a listed one.
C2_Witness ==
    \E c \in DoneCalls :
        /\ ListedOk(calls[c])
        /\ Len(calls[c].body) >= 3
        /\ LET pdf == View(calls[c].pre)
               res == pdf.pages[calls[c].p]
           IN  \E a, b \in 1..Len(res) :
                  a < b /\ Skipped(pdf, res[a]) /\ ~Skipped(pdf, res[b])

\* The resources of the page that pass the three tests, and their placements.
Listable(pdf, entry) ==
    /\ Len(entry.rects) >= 1
    /\ pdf.objs[entry.xref].img
    /\ pdf.objs[entry.xref].ext = "ok"

Placements(pdf, res) ==
    UNION { {<<k, j>> : j \in 1..Len(res[k].rects)} :
            k \in {n \in 1..Len(res) : Listable(pdf, res[n])} }

Earlier(pl, q) ==
    Cardinality({x \in pl : x[1] < q[1] \/ (x[1] = q[1] /\ x[2] < q[2])})

\* C3: on a valid page the listing succeeds and holds exactly one occurrence
\* per placement rectangle of every resource that has a rectangle, is an image
\* and is extractable, in resource order and then placement order; every other
\* resource contributes nothing and stops nothing.
C3_OneOccurrencePerPlacement ==
    \A c \in DoneCalls :
        (/\ calls[c].op = "images"
         /\ calls[c].pre # <<>>
         /\ ValidPage(View(calls[c].pre), calls[c].p))
        => LET pdf == View(calls[c].pre)
               res == pdf.pages[calls[c].p]
               pl == Placements(pdf, res)
               out == calls[c].body
           IN  /\ calls[c].exc = NoError
               /\ Len(out) = Cardinality(pl)
               /\ \A q \in pl :
                     /\ out[Earlier(pl, q) + 1].xref = res[q[1]].xref
                     /\ out[Earlier(pl, q) + 1].bbox = res[q[1]].rects[q[2]]

\* A listing in which a resource drawn twice follows a resource without a
\* rectangle and a resource whose extraction raised, both skipped.
C3_Witness ==
    \E c \in DoneCalls :
        /\ ListedOk(calls[c])
        /\ LET pdf == View(calls[c].pre)
               res == pdf.pages[calls[c].p]
           IN  \E a, b, k \in 1..Len(res) :
                  /\ a < k /\ b < k
                  /\ res[a].rects = <<>>
                  /\ Len(res[b].rects) >= 1
                  /\ pdf.objs[res[b].xref].img
                  /\ pdf.objs[res[b].xref].ext = "err"
                  /\ Listable(pdf, res[k]) /\ Len(res[k].rects) >= 2
        /\ Len(calls[c].body) >= 2


ReplaceDone == {c \in DoneCalls : calls[c].op = "replace" /\ Invoked(calls[c])}

\* The listing of the call's page in the stored state the call started from.
ListedBefore(r) == ListPageImages(View(r.pre), r.p)

Addressable(r) ==
    /\ r.pre # <<>>
    /\ ValidPage(View(r.pre), r.p)

HasIndex(images, i) == \E k \in 1..Len(images) : images[k].index = i

\* What a listing shows for an object that holds the normalised replacement.
NewPreview(raw) == B64(<<"enc", PixmapFromBytes(raw).samples>>)

\* C4: after a successful replace addressed to index i, the next listing of
\* the page shows the new pixel content at every occurrence that shares the
\* object reference of occurrence i, and the previous content everywhere else.
C4_SharedObjectReplaced ==
    \A c \in ReplaceDone :
        calls[c].status = 200 =>
            LET r == calls[c]
                lb == ListedBefore(r)
                la == ListPageImages(View(files[r.d]), r.p)
                t == CHOOSE k \in 1..Len(lb) : lb[k].index = r.i
            IN  /\ Len(la) = Len(lb)
                /\ \A k \in 1..Len(lb) :
                      /\ la[k].xref = lb[k].xref
                      /\ la[k].bbox = lb[k].bbox
                      /\ IF lb[k].xref = lb[t].xref
                         THEN /\ la[k].preview_base64 = NewPreview(r.raw)
                              /\ la[k].width = r.raw.w
                              /\ la[k].height = r.raw.h
                         ELSE la[k].preview_base64 = lb[k].preview_base64

\* A successful replace addressed to the second of two occurrences that share
\* an object, on a page that also shows another object.
C4_Witness ==
    \E c \in ReplaceDone :
        /\ calls[c].status = 200
        /\ calls[c].i = 1
        /\ LET lb == ListedBefore(calls[c])
           IN  /\ Len(lb) >= 3
               /\ lb[1].xref = lb[2].xref
               /\ lb[3].xref # lb[2].xref

\* C5: on an existing document and a valid page, a replace whose index is
\* carried by no occurrence of the freshly computed listing fails with the
\* index error and leaves the stored file as it was.
C5_IndexNotFound ==
    \A c \in ReplaceDone :
        (Addressable(calls[c]) /\ ~HasIndex(ListedBefore(calls[c]), calls[c].i))
            => /\ calls[c].exc = IndexNotFound
               /\ files[calls[c].d] = calls[c].pre

\* A replace with index -1 on a page that has occurrences, after an earlier
\* replace changed the document.
C5_Witness ==
    \E c \in ReplaceDone :
        /\ Addressable(calls[c])
        /\ calls[c].i = -1
        /\ Len(ListedBefore(calls[c])) >= 1
        /\ Len(calls[c].pre) > Len(uploaded[calls[c].d])
        /\ calls[c].exc = IndexNotFound

PageOps == {"preview", "images", "replace"}

OutOfRange ==
    {c \in DoneCalls :
        /\ calls[c].op \in PageOps
        /\ Invoked(calls[c])
        /\ calls[c].pre # <<>>
        /\ ~ValidPage(View(calls[c].pre), calls[c].p)}

\* C6 as stated: a page outside [1, page_count] fails with the page error, an
\* error kind (exception class) distinct from the kind of the unknown-document
\* error and from the kind of the index error; the stored file is unchanged.
C6_Original ==
    \A c \in OutOfRange :
        /\ calls[c].exc = InvalidPage
        /\ calls[c].exc.cls # DocumentNotFound.cls
        /\ calls[c].exc.cls # IndexNotFound.cls
        /\ files[calls[c].d] = calls[c].pre

\* C6 amended: a page outside [1, page_count] fails in preview, listing and
\* replace with ValueError("Invalid page number"): its class differs from the
\* unknown-document error's, it shares the class ValueError and the HTTP
\* status with the index error and differs from it by message only; the
\* stored file is unchanged.
C6_InvalidPage ==
    \A c \in OutOfRange :
        /\ calls[c].exc = InvalidPage
        /\ calls[c].exc.cls # DocumentNotFound.cls
        /\ calls[c].exc.cls = IndexNotFound.cls
        /\ calls[c].exc.msg # IndexNotFound.msg
        /\ calls[c].status = HttpStatus(IndexNotFound)
        /\ files[calls[c].d] = calls[c].pre

\* A replace addressed to page page_count + 1 of a document that exists.
C6_Witness ==
    \E c \in OutOfRange :
        /\ calls[c].op = "replace"
        /\ calls[c].p = PageCount(View(calls[c].pre)) + 1
        /\ calls[c].exc = InvalidPage

Undecodable ==
    {c \in ReplaceDone :
        /\ Addressable(calls[c])
        /\ HasIndex(ListedBefore(calls[c]), calls[c].i)
        /\ ~Decodable(calls[c].raw)}

\* C7 as stated: undecodable bytes make the replace fail with an error of the
\* manager's own taxonomy, not with the decoder's raw error, and the stored
\* file is unchanged.
C7_DecodeErrorTranslated ==
    \A c \in Undecodable :
        /\ calls[c].exc # NoError
        /\ calls[c].exc.cls # UnidentifiedImage.cls
        /\ files[calls[c].d] = calls[c].pre

\* C8: a replace that answers success has saved, and the stored file is the
\* file it started from plus the complete update; a replace whose save failed
\* answers failure.
C8_NoPartialSuccess ==
    \A c \in ReplaceDone :
        LET r == calls[c]
        IN  /\ r.status = 200 =>
                /\ r.save = "ok"
                /\ HasIndex(ListedBefore(r), r.i)
                /\ files[r.d] # r.pre
                /\ LET lb == ListedBefore(r)
                       t == CHOOSE k \in 1..Len(lb) : lb[k].index = r.i
                   IN  files[r.d] =
                          Append(r.pre, UpdSeg(LastGood(r.pre), lb[t].xref,
                                               PixmapFromBytes(r.raw)))
            /\ r.save = "failed" => (r.status # 200 /\ r.exc # NoError)

\* A replace whose save failed after writing part of the update.
C8_Witness ==
    \E c \in ReplaceDone :
        /\ calls[c].save = "failed"
        /\ files[calls[c].d] # calls[c].pre
        /\ calls[c].status = 500

\* Every committed update of the file applied in file order.
RECURSIVE ApplyAll(_)
ApplyAll(f) ==
    IF Len(f) = 1 THEN f[1].pdf
    ELSE LET base == ApplyAll(SubSeq(f, 1, Len(f) - 1))
             u == f[Len(f)]
         IN  IF u.t = "upd"
             THEN [base EXCEPT !.objs[u.xref] = ImageObj(u.px)]
             ELSE base

\* The document a reader sees lacks a replacement the file holds.
LostUpdate(d) == files[d] # <<>> /\ View(files[d]) # ApplyAll(files[d])

\* C9: the stored document fails to reflect a committed replacement only if
\* two replace calls were in flight on that document together; calls that
\* take turns on a document never reach such a state.
C9_LostUpdateNeedsOverlap ==
    \A d \in DocIds : LostUpdate(d) => overlapped[d]

\* Two calls resolved and opened the same stored state, both appended their
\* update, and the document shows only one of the two replacements.
C9_Witness ==
    \E d \in DocIds :
        /\ LostUpdate(d)
        /\ Len(files[d]) >= 3
        /\ files[d][2].t = "upd"
        /\ files[d][3].t = "upd"
        /\ files[d][2].prev = files[d][3].prev

\* C10 as stated: when an operation has ended, on whatever path, it holds no
\* engine document handle and its pixel buffer has been released.
C10_HandlesReleased ==
    \A c \in DoneCalls : ~calls[c].handle /\ calls[c].pix = <<>>

====
